---- MODULE Spec2Model ----
(***************************************************************************)
(* Model of money_bot.py: the users table, the accounting operations of    *)
(* class MoneyBot (get_user_data, update_user_data, can_earn_money,        *)
(* add_money) and the message routing of on_message with the balance and   *)
(* help_money commands.                                                    *)
(*                                                                         *)
(* A handler is a task that advances one store access (SELECT, INSERT,     *)
(* UPDATE) or one clock read (datetime.now()) at a time.  Spec and         *)
(* SpecFresh run one handler at a time to completion (the sequential       *)
(* stream of events); SpecConc lets two handlers interleave between their  *)
(* store accesses.  The clock may advance between any two steps.           *)
(***************************************************************************)
EXTENDS Integers, Sequences, FiniteSets, TLC

\* src/money_bot.py:32-33
MONEY_PER_MESSAGE == 5
DAILY_LIMIT == 300

\* ---- bounds of the model ----
\* add_money calls per user in Spec and SpecConc
MaxCalls == 2
\* add_money calls per user in SpecFresh (one more than the 61 of the scenario)
MaxFreshCalls == 62
\* the clock runs over the days 1..MaxDay
MaxDay == 2
\* SpecParam: MONEY_PER_MESSAGE ranges over 1..MaxMpm, DAILY_LIMIT over 1..MaxLimit
MaxMpm == 3
MaxLimit == 6

Users == {1, 2}
Tasks == {1, 2}

VARIABLES
    users,      \* the rows of table users (money_bot.db)
    now,        \* the calendar day datetime.now() falls on
    task,       \* per handler: its position and its local variables
    calls,      \* history: add_money invocations per user
    credited,   \* history: add_money invocations per user that returned True
    prev,       \* history: per user, the day its last finished add_money first read
    initial,    \* history: the table as the process found it at start
    mpm,        \* the value of MONEY_PER_MESSAGE
    limit       \* the value of DAILY_LIMIT

vars == <<users, now, task, calls, credited, prev, initial, mpm, limit>>

\* ---- values ----

\* strftime("%Y-%m-%d") of day d: distinct days give distinct strings and no day
\* gives the empty string, which is all the code compares; the string of day d
\* is represented by d and "" by 0.
EmptyDate == 0
strftime(d) == d

\* Python's None
None == -1

\* a row of table users (lines 45-50), and the tuple fetchone returns
MkRow(u, w, d, dt) ==
    [user_id |-> u, wallet_money |-> w, daily_earned |-> d, last_earn_date |-> dt]

\* the row line 67-71 inserts and returns
NewUserRow_Bonus(u) == MkRow(u, MONEY_PER_MESSAGE, 0, EmptyDate)
NewUserRow(u) == MkRow(u, 0, 0, EmptyDate)

NoRow == [user_id |-> None]

\* SELECT * FROM users WHERE user_id = ? ; fetchone()  (None when no row)
Select(tbl, u) ==
    IF \E r \in tbl : r.user_id = u
    THEN CHOOSE r \in tbl : r.user_id = u
    ELSE NoRow

HasRow(tbl, u) == \E r \in tbl : r.user_id = u

\* UPDATE users SET wallet_money = ?, daily_earned = ?, last_earn_date = ?
\* WHERE user_id = ?
Update_NoWhere(tbl, u, w, d, dt) ==
    {MkRow(r.user_id, w, d, dt) : r \in tbl}
Update(tbl, u, w, d, dt) ==
    {IF r.user_id = u THEN MkRow(u, w, d, dt) ELSE r : r \in tbl}

\* "x if x is not None else current" of lines 85-87
OrCurrent_Zero(x, cur) == IF x # None THEN x ELSE 0
OrCurrent(x, cur) == IF x # None THEN x ELSE cur

\* line 109: user_data[2] < DAILY_LIMIT
UnderLimit_Inclusive(daily, lim) == daily <= lim
UnderLimit(daily, lim) == daily < lim

\* line 104: user_data[3] != today
IsNewDay(date, today) == date # today

\* lines 119-120: the credit
Credit_Double(x, amount) == x + amount + amount
Credit(x, amount) == x + amount

\* ---- text ----

\* str.lower() on the letters the channel names use
LowerChar(c) ==
    CASE c = "M" -> "m"
      [] c = "O" -> "o"
      [] c = "N" -> "n"
      [] c = "E" -> "e"
      [] c = "Y" -> "y"
      [] c = "G" -> "g"
      [] OTHER -> c
Lower(s) == [i \in DOMAIN s |-> LowerChar(s[i])]

MoneyName == <<"m", "o", "n", "e", "y">>

\* line 143 and line 157: channel.name.lower() == "money"
IsMoneyChannel_CaseSensitive(name) == name = MoneyName
IsMoneyChannel_Any(name) == TRUE
IsMoneyChannel(name) == Lower(name) = MoneyName

\* line 147: message.content.startswith('!')
Prefix == "!"
StartsWithPrefix_Never(content) == FALSE
StartsWithPrefix(content) == Len(content) >= 1 /\ content[1] = Prefix

\* the word process_commands looks up: what follows the prefix, up to a blank
RECURSIVE Word(_)
Word(s) ==
    IF s = <<>> \/ Head(s) = " " THEN <<>> ELSE <<Head(s)>> \o Word(Tail(s))

\* lines 153 and 171: the registered names and aliases
BalanceNames ==
    { <<"b","a","l","a","n","c","e">>, <<"b","a","l">>, <<"m","o","n","e","y">> }
HelpNames ==
    { <<"h","e","l","p","_","m","o","n","e","y">>,
      <<"m","o","n","e","y","_","h","e","l","p">> }

\* the command process_commands dispatches to (line 140)
Command(content) ==
    IF ~ (Len(content) >= 1 /\ content[1] = Prefix) THEN "none"
    ELSE IF Word(Tail(content)) \in BalanceNames THEN "balance"
    ELSE IF Word(Tail(content)) \in HelpNames THEN "help_money"
    ELSE "none"

ChannelNames ==
    { <<"m","o","n","e","y">>, <<"M","o","n","e","y">>, <<"M","O","N","E","Y">>,
      <<"g","e","n","e","r","a","l">> }

Contents ==
    { <<>>, <<"h","i">>,
      <<"!","b","a","l","a","n","c","e">>,
      <<"!","h","e","l","p","_","m","o","n","e","y">>,
      <<"!","n","o","p","e">> }

\* the inbound event: (author id, author.bot, channel.name, content)
Messages ==
    [author : Users, bot : BOOLEAN, channel : ChannelNames, content : Contents]

NoMessage == [author |-> None, bot |-> FALSE, channel |-> <<>>, content |-> <<>>]

\* lines 136, 143, 147: the messages on_message passes to add_money
Qualifies(m) ==
    /\ ~ m.bot
    /\ ~ IsMoneyChannel(m.channel)
    /\ ~ StartsWithPrefix(m.content)

\* ---- tasks ----

IdleTask ==
    [ pc |-> "idle", msg |-> NoMessage, kont |-> "none", after |-> "none",
      result |-> NoRow, user_data |-> NoRow, today |-> EmptyDate,
      args |-> <<None, None, None>>, ret |-> "none", sent |-> "none",
      invoked |-> 0, pre |-> {}, prev_day |-> EmptyDate, first_day |-> EmptyDate ]

Idle(t) == task[t].pc = "idle"

\* the history a finished add_money call leaves
Finished(t, outcome) ==
    LET u == task[t].msg.author IN
    /\ credited' = [credited EXCEPT ![u] = @ + (IF outcome = "True" THEN 1 ELSE 0)]
    /\ prev' = [prev EXCEPT ![u] = task'[t].first_day]

\* on_message up to and including process_commands (lines 134-140), with the
\* balance command's channel check (157-159) and help_money (172-182)
on_message(t, m, seq, bound) ==
    /\ Idle(t)
    /\ seq => \A o \in Tasks : Idle(o)
    /\ Qualifies(m) => calls[m.author] < bound
    /\ LET cmd == IF m.bot THEN "none" ELSE Command(m.content)
           start == [IdleTask EXCEPT !.msg = m, !.pre = users,
                                     !.prev_day = prev[m.author]]
       IN task' = [task EXCEPT ![t] =
            IF m.bot THEN [start EXCEPT !.pc = "done"]
            ELSE IF cmd = "balance" /\ ~ IsMoneyChannel(m.channel)
                 THEN [start EXCEPT !.pc = "filter", !.sent = "rejection"]
            ELSE IF cmd = "balance"
                 THEN [start EXCEPT !.pc = "select", !.kont = "balance"]
            ELSE IF cmd = "help_money"
                 THEN [start EXCEPT !.pc = "filter", !.sent = "help"]
            ELSE [start EXCEPT !.pc = "filter"]]
    /\ UNCHANGED <<users, now, calls, credited, prev, initial, mpm, limit>>

\* on_message after process_commands (lines 142-151): the two filters, then the
\* call of add_money, which starts can_earn_money's get_user_data (line 100)
filter(t) ==
    /\ task[t].pc = "filter"
    /\ LET m == task[t].msg IN
       IF IsMoneyChannel(m.channel) \/ StartsWithPrefix(m.content)
       THEN /\ task' = [task EXCEPT ![t].pc = "done"]
            /\ UNCHANGED calls
       ELSE /\ task' = [task EXCEPT ![t].pc = "select", ![t].kont = "can_earn",
                                    ![t].invoked = @ + 1]
            /\ calls' = [calls EXCEPT ![m.author] = @ + 1]
    /\ UNCHANGED <<users, now, credited, prev, initial, mpm, limit>>

\* where get_user_data returns to
Return(tk, row) ==
    [tk EXCEPT !.pc = tk.kont, !.kont = "none", !.result = row]

\* get_user_data, lines 61-64 and 73-74: the SELECT, and the return on a hit
get_user_data_select(t) ==
    /\ task[t].pc = "select"
    /\ LET row == Select(users, task[t].msg.author) IN
       task' = [task EXCEPT ![t] =
            IF row # NoRow THEN Return(task[t], row)
            ELSE [task[t] EXCEPT !.pc = "insert"]]
    /\ UNCHANGED <<users, now, calls, credited, prev, initial, mpm, limit>>

\* get_user_data, lines 66-74: the INSERT after a miss.  user_id is the PRIMARY
\* KEY (line 46): the INSERT raises sqlite3.IntegrityError when a row for the
\* user has appeared since the SELECT, which ends the handler.
get_user_data_insert(t) ==
    /\ task[t].pc = "insert"
    /\ LET u == task[t].msg.author IN
       IF HasRow(users, u)
       THEN /\ task' = [task EXCEPT ![t].pc = "done", ![t].ret = "raised"]
            /\ UNCHANGED users
            /\ IF task[t].invoked > 0
               THEN Finished(t, "raised")
               ELSE UNCHANGED <<credited, prev>>
       ELSE /\ users' = users \cup {NewUserRow(u)}
            /\ task' = [task EXCEPT ![t] = Return(task[t], NewUserRow(u))]
            /\ UNCHANGED <<credited, prev>>
    /\ UNCHANGED <<now, calls, initial, mpm, limit>>

\* balance, lines 161-169, after its get_user_data: the embed is sent
balance(t) ==
    /\ task[t].pc = "balance"
    /\ task' = [task EXCEPT ![t].pc = "filter", ![t].sent = "embed",
                            ![t].user_data = task[t].result]
    /\ UNCHANGED <<users, now, calls, credited, prev, initial, mpm, limit>>

\* can_earn_money, lines 100-109, after its get_user_data: the clock read and
\* the decision.  A new day starts update_user_data(daily_earned=0,
\* last_date=today); under the limit, add_money goes on to its own
\* get_user_data (line 116); otherwise add_money returns False (line 114).
can_earn_money(t) ==
    /\ task[t].pc = "can_earn"
    /\ LET user_data == task[t].result
           today == strftime(now)
           tk == [task[t] EXCEPT !.user_data = user_data, !.today = today,
                                 !.first_day = today]
       IN task' = [task EXCEPT ![t] =
            IF IsNewDay(user_data.last_earn_date, today)
            THEN [tk EXCEPT !.pc = "select", !.kont = "update",
                            !.args = <<None, 0, today>>, !.after = "add_money"]
            ELSE IF UnderLimit(user_data.daily_earned, limit)
            THEN [tk EXCEPT !.pc = "select", !.kont = "add_money"]
            ELSE [tk EXCEPT !.pc = "done", !.ret = "False"]]
    /\ IF task'[t].pc = "done"
       THEN Finished(t, "False")
       ELSE UNCHANGED <<credited, prev>>
    /\ UNCHANGED <<users, now, calls, initial, mpm, limit>>

\* add_money, lines 116-122, after its get_user_data: the second clock read,
\* the new values, and the start of update_user_data
add_money(t) ==
    /\ task[t].pc = "add_money"
    /\ LET user_data == task[t].result
           today == strftime(now)
           new_wallet == Credit(user_data.wallet_money, mpm)
           new_daily == Credit(user_data.daily_earned, mpm)
       IN task' = [task EXCEPT ![t].pc = "select", ![t].kont = "update",
                               ![t].user_data = user_data, ![t].today = today,
                               ![t].args = <<new_wallet, new_daily, today>>,
                               ![t].after = "return"]
    /\ UNCHANGED <<users, now, calls, credited, prev, initial, mpm, limit>>

\* update_user_data, lines 85-96, after its get_user_data (line 82): the UPDATE.
\* Called from can_earn_money it returns True into add_money (line 116); called
\* from add_money, add_money returns True (line 123).
update_user_data(t) ==
    /\ task[t].pc = "update"
    /\ LET u == task[t].msg.author
           current == task[t].result
           a == task[t].args
           new_wallet == OrCurrent(a[1], current.wallet_money)
           new_daily == OrCurrent(a[2], current.daily_earned)
           new_date == OrCurrent(a[3], current.last_earn_date)
       IN users' = Update(users, u, new_wallet, new_daily, new_date)
    /\ IF task[t].after = "add_money"
       THEN /\ task' = [task EXCEPT ![t].pc = "select", ![t].kont = "add_money",
                                    ![t].after = "none"]
            /\ UNCHANGED <<credited, prev>>
       ELSE /\ task' = [task EXCEPT ![t].pc = "done", ![t].ret = "True",
                                    ![t].after = "none"]
            /\ Finished(t, "True")
    /\ UNCHANGED <<now, calls, initial, mpm, limit>>

\* the handler's coroutine ends; its locals are gone
finish(t) ==
    /\ task[t].pc = "done"
    /\ task' = [task EXCEPT ![t] = IdleTask]
    /\ UNCHANGED <<users, now, calls, credited, prev, initial, mpm, limit>>

\* midnight: datetime.now() moves to the next calendar day
Tick ==
    /\ now < MaxDay
    /\ now' = now + 1
    /\ UNCHANGED <<users, task, calls, credited, prev, initial, mpm, limit>>

\* one step of handler t; seq: handlers run one at a time
Step(t, seq, bound, inbound) ==
    \/ \E m \in inbound : on_message(t, m, seq, bound)
    \/ filter(t)
    \/ get_user_data_select(t)
    \/ get_user_data_insert(t)
    \/ balance(t)
    \/ can_earn_money(t)
    \/ add_money(t)
    \/ update_user_data(t)
    \/ finish(t)

\* ---- initial states ----

\* rows a user can have when the process starts on day 1 (money_bot.db outlives
\* the process: CREATE TABLE IF NOT EXISTS, line 45): none; the row a balance
\* query created; one credit short of the limit, and at the limit, earned on
\* day 1
StoredRows(u) ==
    { NewUserRow(u),
      MkRow(u, DAILY_LIMIT - MONEY_PER_MESSAGE, DAILY_LIMIT - MONEY_PER_MESSAGE, strftime(1)),
      MkRow(u, DAILY_LIMIT, DAILY_LIMIT, strftime(1)) }

Tables ==
    { t \in SUBSET (UNION {StoredRows(u) : u \in Users}) :
        \A r, s \in t : r.user_id = s.user_id => r = s }

InitCommon ==
    /\ now = 1
    /\ task = [t \in Tasks |-> IdleTask]
    /\ calls = [u \in Users |-> 0]
    /\ credited = [u \in Users |-> 0]
    /\ prev = [u \in Users |-> EmptyDate]
    /\ initial = users
    /\ mpm = MONEY_PER_MESSAGE
    /\ limit = DAILY_LIMIT

Init == users \in Tables /\ InitCommon

\* as Init, the second user not yet seen
InitConc == users \in {t \in Tables : ~ HasRow(t, 2)} /\ InitCommon

\* a new database (init_database, lines 39-54, on a missing file)
InitFresh == users = {} /\ InitCommon

\* the messages of one author
MessagesOf(u) == {m \in Messages : m.author = u}

\* the messages that reach the store: chat in a channel that earns, and the
\* balance query in the money channel
StoreMessages ==
    {m \in Messages : /\ ~ m.bot
                      /\ m.channel \in { <<"g","e","n","e","r","a","l">>, MoneyName }
                      /\ m.content \in { <<"h","i">>,
                                         <<"!","b","a","l","a","n","c","e">> }}

Next == Tick \/ Step(1, TRUE, MaxCalls, Messages)

NextFresh == Step(1, TRUE, MaxFreshCalls, MessagesOf(1))

NextConc ==
    Tick \/ \E t \in Tasks : Step(t, FALSE, MaxCalls, StoreMessages \cap MessagesOf(1))

\* a new database under other values of the two constants of lines 32-33
InitParam ==
    /\ users = {}
    /\ now = 1
    /\ task = [t \in Tasks |-> IdleTask]
    /\ calls = [u \in Users |-> 0]
    /\ credited = [u \in Users |-> 0]
    /\ prev = [u \in Users |-> EmptyDate]
    /\ initial = users
    /\ mpm \in 1..MaxMpm
    /\ limit \in 1..MaxLimit

\* enough calls to pass the largest limit with the smallest credit
NextParam ==
    Tick \/ Step(1, TRUE, MaxLimit + 1, StoreMessages \cap MessagesOf(1))

\* a sequential stream of events, the clock free to advance
Spec == Init /\ [][Next]_vars

\* a sequential stream of events on one calendar day, from a new database
SpecFresh == InitFresh /\ [][NextFresh]_vars

\* a sequential stream of events for positive values of the two constants
SpecParam == InitParam /\ [][NextParam]_vars

\* two handlers interleaving between their store accesses
SpecConc == InitConc /\ [][NextConc]_vars

\* ---- the claims ----

Wallet(tbl, u) == IF HasRow(tbl, u) THEN Select(tbl, u).wallet_money ELSE 0
Daily(tbl, u) == IF HasRow(tbl, u) THEN Select(tbl, u).daily_earned ELSE 0
Min(a, b) == IF a <= b THEN a ELSE b
Quiescent == \A t \in Tasks : task[t].pc \in {"idle", "done"}
Bang(content) == Len(content) >= 1 /\ content[1] = "!"

\* the handler of t was passed to add_money, which read the clock while the
\* user's stored row was dated that day and at the daily limit
AtCap(t) ==
    LET tk == task[t]  u == tk.msg.author IN
    /\ tk.invoked = 1
    /\ tk.first_day # EmptyDate
    /\ HasRow(tk.pre, u)
    /\ Select(tk.pre, u).last_earn_date = tk.first_day
    /\ Select(tk.pre, u).daily_earned >= limit

\* C1: add_money invoked while the user's stored last_earn_date is the current
\* day and the stored daily_earned is at least DAILY_LIMIT returns False and
\* leaves the table as it was.
C1_CapRejects ==
    \A t \in Tasks :
        AtCap(t) => /\ task[t].pc = "done"
                    /\ task[t].ret = "False"
                    /\ users = task[t].pre

C1_Witness ==
    \E t \in Tasks : AtCap(t) /\ task[t].ret = "False"

\* C2: of two consecutive add_money calls for a user, when the second first
\* reads a later day than the first one first read, the second returns True
\* and leaves daily_earned = MONEY_PER_MESSAGE.
C2_DayChangeResets ==
    \A t \in Tasks :
        LET tk == task[t] IN
        (/\ tk.pc = "done"
         /\ tk.invoked = 1
         /\ tk.prev_day # EmptyDate
         /\ tk.first_day > tk.prev_day)
        => /\ tk.ret = "True"
           /\ Daily(users, tk.msg.author) = mpm

\* C3: with MONEY_PER_MESSAGE = 5 and DAILY_LIMIT = 300 no stored daily_earned
\* exceeds DAILY_LIMIT, and an add_money call raises the wallet by the whole
\* MONEY_PER_MESSAGE (and returns True) or by nothing (and returns False).
C3_CapInvariant ==
    /\ mpm = 5 /\ limit = 300
    /\ \A r \in users : r.daily_earned <= limit
    /\ \A t \in Tasks :
        LET tk == task[t]
            gain == Wallet(users, tk.msg.author) - Wallet(tk.pre, tk.msg.author)
        IN tk.invoked = 1 =>
            /\ gain \in {0, mpm}
            /\ tk.pc = "done" => (tk.ret = "True" <=> gain = mpm)
            /\ tk.pc = "done" => (tk.ret = "False" <=> gain = 0)

C3_Witness ==
    \E t \in Tasks :
        /\ task[t].pc = "done" /\ task[t].ret = "True"
        /\ Daily(users, task[t].msg.author) = limit
        /\ Daily(task[t].pre, task[t].msg.author) = limit - mpm

\* C4: from a new database, on one day, the k-th add_money call of a user
\* returns True iff k <= DAILY_LIMIT / MONEY_PER_MESSAGE = 60; after N calls
\* wallet_money = daily_earned = MONEY_PER_MESSAGE * min(N, 60); a call past
\* the 60th leaves the table as it was.
C4_SameDayClosedForm ==
    /\ limit \div mpm = 60
    /\ Quiescent =>
         \A u \in Users :
            /\ Wallet(users, u) = mpm * Min(calls[u], limit \div mpm)
            /\ Daily(users, u) = mpm * Min(calls[u], limit \div mpm)
    /\ \A t \in Tasks :
         LET tk == task[t] IN
         (tk.pc = "done" /\ tk.invoked = 1) =>
            /\ tk.ret = "True" <=> calls[tk.msg.author] <= limit \div mpm
            /\ calls[tk.msg.author] > limit \div mpm => users = tk.pre

C4_Witness ==
    \E t \in Tasks :
        /\ task[t].pc = "done" /\ task[t].invoked = 1
        /\ calls[task[t].msg.author] = 61
        /\ task[t].ret = "False"
        /\ Wallet(users, task[t].msg.author) = 300
        /\ Daily(task[t].pre, task[t].msg.author) = 300

\* C5: a message whose text begins with '!' never reaches add_money, in any
\* channel and whatever follows the '!'; its author's wallet_money and
\* daily_earned stay as they were.
C5_CommandsEarnNothing ==
    \A t \in Tasks :
        LET tk == task[t] IN
        (tk.pc # "idle" /\ Bang(tk.msg.content)) =>
            /\ tk.invoked = 0
            /\ Wallet(users, tk.msg.author) = Wallet(tk.pre, tk.msg.author)
            /\ Daily(users, tk.msg.author) = Daily(tk.pre, tk.msg.author)

C5_Witness ==
    \E t \in Tasks :
        /\ task[t].pc = "done" /\ ~ task[t].msg.bot
        /\ task[t].msg.content = <<"!","n","o","p","e">>
        /\ task[t].msg.channel = <<"g","e","n","e","r","a","l">>
        /\ task[t].invoked = 0

\* C6: a message in a channel whose lower-cased name is "money" never reaches
\* add_money; no user's wallet_money or daily_earned is raised by it.
C6_MoneyChannelEarnsNothing ==
    \A t \in Tasks :
        LET tk == task[t] IN
        (tk.pc # "idle" /\ Lower(tk.msg.channel) = <<"m","o","n","e","y">>) =>
            /\ tk.invoked = 0
            /\ \A u \in Users :
                /\ Wallet(users, u) <= Wallet(tk.pre, u)
                /\ Daily(users, u) <= Daily(tk.pre, u)

C6_Witness ==
    \E t \in Tasks :
        /\ task[t].pc = "done" /\ ~ task[t].msg.bot
        /\ task[t].msg.channel = <<"M","O","N","E","Y">>
        /\ task[t].msg.content = <<"h","i">>
        /\ task[t].invoked = 0
        /\ users = task[t].pre

\* get_user_data has returned into its caller
Returned(t) == task[t].pc \in {"balance", "can_earn", "add_money", "update"}

Ids(tbl) == {r.user_id : r \in tbl}

\* C7: get_user_data for a user without a row returns (u, 0, 0, "") and
\* inserts that one row; with a row it returns the stored row and inserts
\* nothing; the INSERT never fails; the table holds at most one row per
\* user_id; no step removes a row.
C7_CreateOnMissState ==
    /\ \A r, s \in users : r.user_id = s.user_id => r = s
    /\ \A t \in Tasks :
        LET tk == task[t]  u == tk.msg.author IN
        /\ tk.ret # "raised"
        /\ Returned(t) => tk.result = Select(users, u)
        /\ (tk.pc # "idle" /\ HasRow(tk.pre, u)) => Ids(users) = Ids(tk.pre)
        /\ (Returned(t) /\ ~ HasRow(tk.pre, u) /\ tk.pc \in {"balance", "can_earn"}) =>
              /\ tk.result = MkRow(u, 0, 0, EmptyDate)
              /\ users = tk.pre \cup {MkRow(u, 0, 0, EmptyDate)}
        /\ tk.pc # "idle" => Cardinality(users) <= Cardinality(tk.pre) + 1

C7_CreateOnMiss ==
    /\ []C7_CreateOnMissState
    /\ [][Ids(users) \subseteq Ids(users')]_vars

C7_Witness ==
    \E t \in Tasks :
        /\ task[t].pc = "can_earn"
        /\ ~ HasRow(task[t].pre, task[t].msg.author)
        /\ HasRow(users, task[t].msg.author)
        /\ Cardinality(users) = 2

\* C8: every stored wallet_money is a non-negative integer and no step lowers
\* any user's wallet_money.
C8_BalanceMonotone ==
    /\ [](\A r \in users : r.wallet_money \in Nat)
    /\ [][\A u \in Users : Wallet(users', u) >= Wallet(users, u)]_vars

\* the day-reset write has just been done for a user with money
C8_Witness ==
    \E t \in Tasks :
        /\ task[t].pc = "select" /\ task[t].kont = "add_money"
        /\ task[t].args = <<None, 0, task[t].today>>
        /\ Wallet(users, task[t].msg.author) = limit
        /\ Daily(users, task[t].msg.author) = 0

\* C9: the balance command in a channel whose lower-cased name is not "money"
\* sends the rejection, and the handling of that message leaves the table as
\* it was and never reaches add_money.
C9_BalanceMisuse ==
    \A t \in Tasks :
        LET tk == task[t] IN
        (/\ tk.pc # "idle" /\ ~ tk.msg.bot
         /\ tk.msg.content = <<"!","b","a","l","a","n","c","e">>
         /\ Lower(tk.msg.channel) # <<"m","o","n","e","y">>)
        => /\ tk.sent = "rejection"
           /\ users = tk.pre
           /\ tk.invoked = 0
           /\ tk.pc \in {"filter", "done"}

C9_Witness ==
    \E t \in Tasks :
        /\ task[t].pc = "done" /\ task[t].sent = "rejection"
        /\ ~ HasRow(users, task[t].msg.author)

\* C10: with two add_money calls for one user interleaving between their store
\* accesses, the stored wallet_money never exceeds the starting balance plus
\* MONEY_PER_MESSAGE per call that returned True, and once no handler is
\* running it is at least one MONEY_PER_MESSAGE above the start if any call
\* returned True; the witness is the lost update: two calls returned True and
\* the wallet is one MONEY_PER_MESSAGE higher.
C10_LostUpdateBounds ==
    \A u \in Users :
        /\ Wallet(users, u) <= Wallet(initial, u) + mpm * credited[u]
        /\ (Quiescent /\ credited[u] >= 1) =>
              Wallet(users, u) >= Wallet(initial, u) + mpm

C10_LostUpdate ==
    /\ task[1].pc = "done" /\ task[2].pc = "done"
    /\ task[1].ret = "True" /\ task[2].ret = "True"
    /\ task[1].msg.author = task[2].msg.author
    /\ credited[task[1].msg.author] = 2
    /\ task[1].user_data.wallet_money = Wallet(initial, task[1].msg.author)
    /\ task[2].user_data.wallet_money = Wallet(initial, task[1].msg.author)
    /\ Wallet(users, task[1].msg.author) = Wallet(initial, task[1].msg.author) + mpm

Date(tbl, u) == IF HasRow(tbl, u) THEN Select(tbl, u).last_earn_date ELSE EmptyDate

\* the add_money call of t returned True
Credited(t) == task[t].pc = "done" /\ task[t].invoked = 1 /\ task[t].ret = "True"

\* C11: when add_money returns True, wallet_money is MONEY_PER_MESSAGE higher
\* than before the call, daily_earned is MONEY_PER_MESSAGE plus the previous
\* daily_earned if the stored date was already the day of the call (else plus
\* 0), and last_earn_date is the day of the call; add_money returns True
\* unless the stored date is the day of the call and daily_earned is at least
\* DAILY_LIMIT.  The day of the call is the day can_earn_money read.
C11_CreditStep ==
    \A t \in Tasks :
        LET tk == task[t]
            u == tk.msg.author
            sameDay == HasRow(tk.pre, u) /\ Date(tk.pre, u) = tk.first_day
        IN (tk.pc = "done" /\ tk.invoked = 1) =>
            /\ tk.ret = "True" =>
                /\ Wallet(users, u) = Wallet(tk.pre, u) + mpm
                /\ Daily(users, u) = mpm + (IF sameDay THEN Daily(tk.pre, u) ELSE 0)
                /\ Date(users, u) = tk.first_day
            /\ ~ (sameDay /\ Daily(tk.pre, u) >= limit) => tk.ret = "True"

\* the update_user_data call of t has just written
Updated(t) ==
    \/ task[t].pc = "select" /\ task[t].kont = "add_money" /\ task[t].args[2] = 0
    \/ task[t].pc = "done" /\ task[t].ret = "True"

\* C12: the write of can_earn_money's new-day branch sets daily_earned to 0 and
\* last_earn_date to today and leaves wallet_money as it was; update_user_data
\* writes each argument that is not None and keeps the stored value of each
\* field whose argument is None.
C12_ResetFrame ==
    \A t \in Tasks :
        LET tk == task[t]
            u == tk.msg.author
            current == tk.result
        IN /\ (tk.pc = "select" /\ tk.kont = "add_money" /\ tk.args[2] = 0) =>
                /\ tk.args = <<None, 0, tk.today>>
                /\ Date(tk.pre, u) # tk.today
                /\ Select(users, u) = MkRow(u, Wallet(tk.pre, u), 0, tk.today)
           /\ Updated(t) =>
                /\ Wallet(users, u) =
                     (IF tk.args[1] = None THEN current.wallet_money ELSE tk.args[1])
                /\ Daily(users, u) =
                     (IF tk.args[2] = None THEN current.daily_earned ELSE tk.args[2])
                /\ Date(users, u) =
                     (IF tk.args[3] = None THEN current.last_earn_date ELSE tk.args[3])

C12_Witness ==
    \E t \in Tasks :
        /\ task[t].pc = "select" /\ task[t].kont = "add_money"
        /\ task[t].args = <<None, 0, 2>>
        /\ Select(users, task[t].msg.author) =
             MkRow(task[t].msg.author, limit - mpm, 0, 2)
        /\ Daily(task[t].pre, task[t].msg.author) = limit - mpm

\* C13: for positive MONEY_PER_MESSAGE and DAILY_LIMIT, daily_earned never
\* exceeds DAILY_LIMIT + MONEY_PER_MESSAGE - 1; a step takes it over
\* DAILY_LIMIT only by a credit applied when it was below the limit by less
\* than MONEY_PER_MESSAGE; and it is over DAILY_LIMIT only when DAILY_LIMIT is
\* not a multiple of MONEY_PER_MESSAGE.
C13_OvershootState ==
    /\ mpm >= 1 /\ limit >= 1
    /\ \A r \in users :
        /\ r.daily_earned <= limit + mpm - 1
        /\ r.daily_earned > limit => limit % mpm # 0

C13_OvershootStep ==
    \A u \in Users :
        (Daily(users', u) > limit /\ Daily(users, u) <= limit) =>
            /\ Daily(users, u) < limit
            /\ limit - Daily(users, u) < mpm
            /\ Daily(users', u) = Daily(users, u) + mpm
            /\ Wallet(users', u) = Wallet(users, u) + mpm

C13_BoundedOvershoot == []C13_OvershootState /\ [][C13_OvershootStep]_vars

C13_Witness ==
    \E r \in users :
        /\ mpm = 3 /\ limit = 4
        /\ r.daily_earned = limit + mpm - 1
        /\ r.wallet_money > r.daily_earned

\* C14: on_message calls add_money once, for the author, when the author is
\* no bot, the lower-cased channel name is not "money" and the text does not
\* start with '!'; for every other message it never calls it.
C14_Routing ==
    \A t \in Tasks :
        LET tk == task[t]
            m == tk.msg
            eligible == /\ ~ m.bot
                        /\ Lower(m.channel) # <<"m","o","n","e","y">>
                        /\ ~ Bang(m.content)
        IN /\ tk.invoked \in {0, 1}
           /\ tk.invoked = 1 => eligible
           /\ (tk.pc = "done" /\ eligible) =>
                 /\ tk.invoked = 1
                 /\ tk.ret \in {"True", "False"}
                 /\ tk.user_data.user_id = m.author
           /\ (tk.pc = "done" /\ ~ eligible) =>
                 /\ tk.invoked = 0
                 /\ tk.ret = "none"

C14_Witness ==
    \E t \in Tasks :
        /\ task[t].pc = "done" /\ task[t].invoked = 1
        /\ task[t].msg.content = <<>>
        /\ task[t].msg.author = 2
        /\ task[t].user_data.user_id = 2
        /\ calls = <<0, 1>>

\* C15: with two add_money calls for one user interleaving between their store
\* accesses, the stored daily_earned never exceeds DAILY_LIMIT.
C15_CapUnderInterleaving ==
    \A r \in users : r.daily_earned <= limit

\* C16: each user's wallet_money is what the database started with plus
\* MONEY_PER_MESSAGE per add_money call of that user that returned True (a
\* new database starts with nothing), and daily_earned <= wallet_money.
C16_CreditConservation ==
    \A u \in Users :
        /\ Wallet(users, u) = Wallet(initial, u) + mpm * credited[u]
        /\ Daily(users, u) <= Wallet(users, u)
        /\ credited[u] <= calls[u]

C16_Witness ==
    \E u \in Users :
        /\ now = 2
        /\ credited[u] = 2
        /\ initial = {}
        /\ Wallet(users, u) = mpm + mpm
        /\ Daily(users, u) = mpm

\* C17: handling a message of user u leaves the row of every other user as it
\* was and creates no row for another user.
C17_AccountIsolation ==
    \A t \in Tasks :
        task[t].pc # "idle" =>
            \A v \in Users \ {task[t].msg.author} :
                Select(users, v) = Select(task[t].pre, v)

C17_Witness ==
    \E t \in Tasks :
        /\ Credited(t)
        /\ task[t].msg.author = 1
        /\ HasRow(users, 2)
        /\ Daily(users, 2) = limit
        /\ Select(users, 1) # Select(task[t].pre, 1)

====
